---- MODULE Spec2Model ----
(***************************************************************************)
(* Elgrace upload and media API: the POST /upload handler with its image   *)
(* pipeline and detached video job, and the DELETE /media handler, over    *)
(* the model_media table and the media directory tree.                     *)
(*                                                                         *)
(* One action is one continuation of the Node.js event loop: the code      *)
(* between two awaits runs without interleaving, so it is one step.        *)
(***************************************************************************)
EXTENDS Integers, FiniteSets, Sequences, TLC

(* ------------------------------ bounds --------------------------------- *)

\* HTTP requests (uploads and deletions) issued in one behaviour.
MaxRequests == 2

(* ------------------------- program constants --------------------------- *)

IMAGE_MAX_BYTES == 6 * 1024 * 1024

ALLOWED_MEDIA_ROLES ==
    {"profile", "portfolio", "polaroid", "intro_video", "portfolio_video"}

MEDIA_ROLE_LIMITS ==
    [profile |-> 1, portfolio |-> 50, polaroid |-> 6,
     intro_video |-> 1, portfolio_video |-> 10]

\* The image types validateImage accepts.
AllowedImageMimes ==
    {<<"image", "jpeg">>, <<"image", "png">>, <<"image", "webp">>,
     <<"image", "heic">>, <<"image", "heif">>}

\* The video types the Validator of the specification accepts.
AllowedVideoMimes ==
    {<<"video", "mp4">>, <<"video", "webm">>, <<"video", "quicktime">>}

(* ------------------------------ inputs --------------------------------- *)

\* model_profiles: the profile row of each user that has one.
ModelProfiles == [u1 |-> "p1", u2 |-> "p2"]

\* (A user named in a scenario and absent here, u0, has no profile.)

\* File contents as the tools see them: the sniffed type (fileTypeFromFile),
\* the size on disk (statSync) and the height of the video stream (ffprobe).
Bytes(mime, size, height) == [mime |-> mime, size |-> size, height |-> height]

\* Client file parts: the extension of originalname, the declared
\* Content-Type (req.file.mimetype) and the bytes sent.
Part(ext, mimetype, bytes) == [ext |-> ext, mimetype |-> mimetype, bytes |-> bytes]

\* A MIME type is <<type, subtype>>; NoType is what fileTypeFromFile returns
\* for bytes it does not recognise (undefined).
NoType == <<>>

photo_jpg == Part(".jpg", <<"image", "jpeg">>,
                  Bytes(<<"image", "jpeg">>, IMAGE_MAX_BYTES, 0))
big_jpg   == Part(".jpg", <<"image", "jpeg">>,
                  Bytes(<<"image", "jpeg">>, IMAGE_MAX_BYTES + 1, 0))
live_heic == Part(".heic", <<"image", "heic">>,
                  Bytes(<<"image", "heic">>, 1024, 0))
anim_gif  == Part(".gif", <<"image", "gif">>,
                  Bytes(<<"image", "gif">>, 1024, 0))
\* A text file named .jpg and declared image/jpeg.
notes_jpg == Part(".jpg", <<"image", "jpeg">>, Bytes(NoType, 1024, 0))
clip_mp4  == Part(".mp4", <<"video", "mp4">>,
                  Bytes(<<"video", "mp4">>, 4096, 1080))
film_mp4  == Part(".mp4", <<"video", "mp4">>,
                  Bytes(<<"video", "mp4">>, 8192, 2160))
\* A text file named .mp4 and declared video/mp4.
notes_mp4 == Part(".mp4", <<"video", "mp4">>, Bytes(NoType, 1024, 0))

\* The users supabase.auth.getUser knows; the token of a user is written as
\* the user's id, any other token is one the verifier rejects.
KnownUsers == {"u0", "u1", "u2"}

\* An Authorization header is <<scheme, token>>, or <<>> when it is missing.
Bearer(token) == <<"Bearer", token>>

\* The places a request carries media_role in: <<form field, query
\* parameter, x-media-role header>>, "" where it carries none. (The form
\* field precedes the file part, so multer's destination sees it too.)
RoleIn(body, query, header) == <<body, query, header>>
Form(role) == RoleIn(role, "", "")

\* Math.floor(Math.random() * 1000) yields 0..999. Request i draws from
\* {0, 1} in a run whose random draws are close enough for two uniqueIds
\* to meet, and draws 2 * i in the other runs.
RandomDraws(close, i) == IF close THEN {0, 1} ELSE {2 * i}

\* Date.now() when a request arrives: the clock has moved on since the
\* last arrival, or, in a run with arrivals in the same millisecond, it
\* may not have.
ClockReads(sameMs, last) == IF sameMs /\ last > 0 THEN {last, last + 1} ELSE {last + 1}

(* ------------------------- paths and URLs ------------------------------ *)

\* path.join(MEDIA_ROOT, "models", owner, "onboarding", role, ...).
RawPath(user, role, ts, ext) == <<"MEDIA_ROOT", user, role, "raw", ts, ext>>
FinalFile(profile, role, uniqueId, isVideo) ==
    <<"MEDIA_ROOT", profile, role, "final", uniqueId,
      IF isVideo THEN ".mp4" ELSE ".jpg">>
PosterFile(profile, role, uniqueId) ==
    <<"MEDIA_ROOT", profile, role, "poster", uniqueId, ".jpg">>
\* rawPath.replace(/\.[^.]+$/, '_converted.jpg')
TempJpegPath(rawPath) ==
    <<rawPath[1], rawPath[2], rawPath[3], "raw", rawPath[5], "_converted.jpg">>

\* The empty string stored in media_url / poster_url at insert.
NoUrl == <<>>

\* p.replace(MEDIA_ROOT, MEDIA_BASE_URL)
ToUrl(p) ==
    IF p # <<>> /\ p[1] = "MEDIA_ROOT"
    THEN [p EXCEPT ![1] = "MEDIA_BASE_URL"] ELSE p
\* url.replace(MEDIA_BASE_URL, MEDIA_ROOT)
ToPath(url) ==
    IF url # <<>> /\ url[1] = "MEDIA_BASE_URL"
    THEN [url EXCEPT ![1] = "MEDIA_ROOT"] ELSE url

(* --------------------------- file system ------------------------------- *)

ExistsSync(fs, p) == p \in DOMAIN fs
WriteFile(fs, p, c) == [q \in DOMAIN fs \cup {p} |-> IF q = p THEN c ELSE fs[q]]
Unlink(fs, ps) == [q \in DOMAIN fs \ ps |-> fs[q]]

\* [url1, url2].forEach(url => { if (!url) return; p = ...; if exists unlink })
UnlinkUrls(fs, urls) == Unlink(fs, {ToPath(u) : u \in urls \ {NoUrl}})

(* ----------------------------- the store ------------------------------- *)

\* Messages are tuples of words; NoError is the absent processing_error.
NoError == <<>>

Row(model_id, media_type, media_role, processing) ==
    [model_id |-> model_id, media_type |-> media_type,
     media_role |-> media_role, media_url |-> NoUrl, poster_url |-> NoUrl,
     processing |-> processing, processing_error |-> NoError]

\* Mutant of the filter: the rows of the role, of any owner.
RowsOfAnyOwner(tbl, m, r) == {id \in DOMAIN tbl : tbl[id].media_role = r}

\* .eq("model_id", m).eq("media_role", r)
RowsOf(tbl, m, r) ==
    {id \in DOMAIN tbl : tbl[id].model_id = m /\ tbl[id].media_role = r}

InsertRow(tbl, id, row) ==
    [k \in DOMAIN tbl \cup {id} |-> IF k = id THEN row ELSE tbl[k]]
DeleteRow(tbl, id) == [k \in DOMAIN tbl \ {id} |-> tbl[k]]

\* Mutant of the lookup: it never finds a row.
SingleRowNeverFound(tbl, m, r) == 0

\* .select(...).eq(...).eq(...).single(): the row when exactly one matches,
\* otherwise an error and no data (0 stands for null).
SingleRow(tbl, m, r) ==
    IF Cardinality(RowsOf(tbl, m, r)) = 1
    THEN CHOOSE id \in RowsOf(tbl, m, r) : TRUE ELSE 0

\* Mutants of the updates: the success update without processing: false, and
\* the failure update without it.
UpdateVideoSuccessStillProcessing(tbl, id, finalPath, posterPath) ==
    IF id \in DOMAIN tbl
    THEN [tbl EXCEPT ![id].media_url = ToUrl(finalPath),
                     ![id].poster_url = ToUrl(posterPath)]
    ELSE tbl

UpdateVideoFailureStillProcessing(tbl, id, message) ==
    IF id \in DOMAIN tbl
    THEN [tbl EXCEPT ![id].processing_error = message]
    ELSE tbl

\* Mutant of the failure update: it appends the message to the error the
\* row already has.
UpdateVideoFailureAppending(tbl, id, message) ==
    IF id \in DOMAIN tbl
    THEN [tbl EXCEPT ![id].processing = FALSE,
                     ![id].processing_error = @ \o message]
    ELSE tbl

\* .update({...}).eq("id", id): changes the row when it exists.
UpdateVideoSuccess(tbl, id, finalPath, posterPath) ==
    IF id \in DOMAIN tbl
    THEN [tbl EXCEPT ![id].processing = FALSE,
                     ![id].media_url = ToUrl(finalPath),
                     ![id].poster_url = ToUrl(posterPath)]
    ELSE tbl

UpdateVideoFailure(tbl, id, message) ==
    IF id \in DOMAIN tbl
    THEN [tbl EXCEPT ![id].processing = FALSE,
                     ![id].processing_error = message]
    ELSE tbl

UpdateImageFinal(tbl, id, finalPath) ==
    IF id \in DOMAIN tbl
    THEN [tbl EXCEPT ![id].media_url = ToUrl(finalPath),
                     ![id].processing = FALSE]
    ELSE tbl

(* ----------------------------- helpers --------------------------------- *)

\* Mutant of verifyUser: any header with a token is let through.
VerifyUserAnyToken(auth) == IF auth = <<>> THEN 401 ELSE 0

\* verifyUser: 401 without a Bearer header, 403 when getUser rejects the
\* token, 0 when it calls next() with req.user.
VerifyUser(auth) ==
    IF auth = <<>> \/ auth[1] # "Bearer" THEN 401
    ELSE IF auth[2] \notin KnownUsers THEN 403
    ELSE 0

VerifyUserError(status) ==
    IF status = 401 THEN <<"Missing token">> ELSE <<"Invalid token">>

\* Mutant of the role resolution: the query parameter before the form field.
MediaRoleQueryFirst(body, query, header) ==
    IF query # "" THEN query ELSE IF body # "" THEN body ELSE header

\* req.body.media_role || req.query.media_role || req.headers["x-media-role"]
MediaRole(body, query, header) ==
    IF body # "" THEN body ELSE IF query # "" THEN query ELSE header

\* Mutant of validateImage: a file of exactly the limit is refused.
ValidateImageAtLimit(fs, filePath) ==
    IF ~ExistsSync(fs, filePath) THEN <<"ENOENT">>
    ELSE LET type == fs[filePath].mime IN
         IF type = NoType \/ type[1] # "image"
         THEN <<"Invalid image file">>
         ELSE IF type \notin AllowedImageMimes
         THEN <<"Unsupported image type">>
         ELSE IF fs[filePath].size >= IMAGE_MAX_BYTES
         THEN <<"Image exceeds size limit">>
         ELSE NoError

\* Mutant of validateImage: it accepts every file.
ValidateImageAcceptsAll(fs, filePath) == NoError

\* req.file.mimetype.startsWith("video")
IsVideo(mimetype) == mimetype # NoType /\ mimetype[1] = "video"

\* validateImage(filePath): the message of the error it throws, or NoError.
ValidateImage(fs, filePath) ==
    IF ~ExistsSync(fs, filePath) THEN <<"ENOENT">>
    ELSE LET type == fs[filePath].mime IN
         IF type = NoType \/ type[1] # "image"
         THEN <<"Invalid image file">>
         ELSE IF type \notin AllowedImageMimes
         THEN <<"Unsupported image type">>
         ELSE IF fs[filePath].size > IMAGE_MAX_BYTES
         THEN <<"Image exceeds size limit">>
         ELSE NoError

\* type.ext === 'heic' || 'heif' || type.mime === 'image/heic' || 'image/heif'
IsHeic(type) == type \in {<<"image", "heic">>, <<"image", "heif">>}

\* Mutants of the capacity test: > for >=, and the cap of portfolio for
\* every role.
AtCapacityOffByOne(count, role) == count > MEDIA_ROLE_LIMITS[role]
AtCapacityOfPortfolio(count, role) == count >= MEDIA_ROLE_LIMITS["portfolio"]

\* count >= MEDIA_ROLE_LIMITS[media_role]
AtCapacity(count, role) == count >= MEDIA_ROLE_LIMITS[role]

CapacityMessage(role) ==
    <<"Maximum", MEDIA_ROLE_LIMITS[role], role, "uploads allowed">>

\* Mutant of the height test: < for <=.
FitsWithoutCompressionBelow(height) == height < 1080

\* if (height <= 1080): no compression needed, the original is copied.
FitsWithoutCompression(height) == height <= 1080

\* Mutant of the ownership test: only a user without profile is refused.
NotOwnerOnlyWithoutProfile(user, model_id) == user \notin DOMAIN ModelProfiles

\* profileError || !profile || data.model_id !== profile.id
NotOwner(user, model_id) ==
    user \notin DOMAIN ModelProfiles \/ model_id # ModelProfiles[user]

\* What the tools write.
ConvertedJpeg(bytes) == Bytes(<<"image", "jpeg">>, bytes.size, 0)
NormalizedJpeg(bytes) == Bytes(<<"image", "jpeg">>, 512, 0)
Transcoded(bytes) == Bytes(<<"video", "mp4">>, 2048, 1080)
PosterFrame(bytes) == Bytes(<<"image", "jpeg">>, 256, 0)

(* ------------------------------ state ---------------------------------- *)

VARIABLES
    scen,    \* the users, roles and file parts the clients of this run send
    now,     \* the last value Date.now() returned
    media,   \* the model_media table: id -> row
    files,   \* the files under MEDIA_ROOT: path -> bytes
    nextId,  \* the id the store gives the next inserted row
    req,     \* the HTTP requests: locals and position of each handler
    job      \* the detached video jobs, one per accepted video upload

vars == <<scen, now, media, files, nextId, req, job>>

Requests == 1 .. MaxRequests

NoResp == [status |-> 0, error |-> NoError, id |-> 0, processing |-> FALSE,
           url |-> NoUrl]

IdleReq == [kind |-> "none", pc |-> "idle", user |-> "", fields |-> <<>>,
            role |-> "",
            isVideo |-> FALSE, rawPath |-> <<>>, existing |-> 0, count |-> 0,
            mediaId |-> 0, finalFile |-> <<>>, data |-> <<>>, resp |-> NoResp]

IdleJob == [pc |-> "none", rawPath |-> <<>>, finalVideoPath |-> <<>>,
            posterPath |-> <<>>, mediaId |-> 0, message |-> NoError]

\* res.status(s).json(body): the handler is over, its locals are gone.
Responded(r, status, error, id, processing, url) ==
    [IdleReq EXCEPT !.kind = r.kind, !.pc = "done",
                    !.resp = [status |-> status, error |-> error, id |-> id,
                              processing |-> processing, url |-> url]]

\* Mutant of the answer to an accepted video: processing: false.
VideoAcceptedAsFinished(r, mediaId) ==
    Responded(r, 200, NoError, mediaId, FALSE, NoUrl)

\* return res.json({ id: mediaId, processing: true })
VideoAccepted(r, mediaId) == Responded(r, 200, NoError, mediaId, TRUE, NoUrl)

\* The catch block of POST /upload: remove the raw file if it is still
\* there, answer 400 with the message.
UploadCatch(i, fs, message) ==
    /\ files' = IF ExistsSync(fs, req[i].rawPath)
                THEN Unlink(fs, {req[i].rawPath}) ELSE fs
    /\ req' = [req EXCEPT ![i] =
                 Responded(req[i], 400, message, 0, FALSE, NoUrl)]

\* Requests are numbered in the order they arrive.
MayArrive(i) ==
    /\ req[i].pc = "idle"
    /\ IF i = 1 THEN TRUE ELSE req[i - 1].pc # "idle"

(* --------------------------- POST /upload ------------------------------ *)

\* The Authorization headers the clients of this run send.
Authorizations == {Bearer(u) : u \in scen.users} \cup scen.badAuth

\* verifyUser, then multer's diskStorage: the raw file goes to the raw
\* directory of the user and of the role the request carries, named after
\* the clock, and the part is streamed to it.
UploadReceive(i) ==
    /\ MayArrive(i)
    /\ \E auth \in Authorizations, fields \in scen.roles, part \in scen.parts,
          ts \in ClockReads(scen.sameMs, now) :
         IF VerifyUser(auth) # 0
         THEN /\ req' = [req EXCEPT ![i] =
                    Responded([IdleReq EXCEPT !.kind = "upload"],
                              VerifyUser(auth), VerifyUserError(VerifyUser(auth)),
                              0, FALSE, NoUrl)]
              /\ UNCHANGED <<now, files>>
         ELSE LET user == auth[2]
                  rawPath == RawPath(user, MediaRole(fields[1], fields[2], fields[3]),
                                     ts, part.ext)
              IN
              /\ now' = ts
              /\ files' = WriteFile(files, rawPath, part.bytes)
              /\ req' = [req EXCEPT ![i] =
                           [IdleReq EXCEPT !.kind = "upload", !.pc = "validate",
                                           !.user = user, !.fields = fields,
                                           !.isVideo = IsVideo(part.mimetype),
                                           !.rawPath = rawPath]]
    /\ UNCHANGED <<scen, media, nextId, job>>

\* Role allow-list, validateImage for a part not declared video, and the
\* lookup of the user's model profile.
UploadValidate(i) ==
    /\ req[i].kind = "upload" /\ req[i].pc = "validate"
    /\ LET r == req[i]
           media_role == MediaRole(r.fields[1], r.fields[2], r.fields[3])
           invalid == IF r.isVideo THEN NoError
                      ELSE ValidateImage(files, r.rawPath)
       IN
       IF media_role \notin ALLOWED_MEDIA_ROLES
       THEN /\ req' = [req EXCEPT ![i] =
                         Responded(r, 400, <<"Invalid media_role">>, 0, FALSE, NoUrl)]
            /\ UNCHANGED files
       ELSE IF invalid # NoError
       THEN UploadCatch(i, files, invalid)
       ELSE IF r.user \notin DOMAIN ModelProfiles
       THEN UploadCatch(i, files, <<"Model profile not found">>)
       ELSE /\ req' = [req EXCEPT ![i].pc = "policy", ![i].role = media_role,
                                  ![i].fields = <<>>]
            /\ UNCHANGED files
    /\ UNCHANGED <<scen, now, media, nextId, job>>

\* The role policy: a singleton role looks its row up with .single() and
\* unlinks the files behind it; a capped role counts the rows. The store
\* answers the count (countError is a failure of the connection).
UploadRolePolicy(i) ==
    /\ req[i].kind = "upload" /\ req[i].pc = "policy"
    /\ LET r == req[i]
           profile == ModelProfiles[r.user]
           existingMedia == SingleRow(media, profile, r.role)
           count == Cardinality(RowsOf(media, profile, r.role))
       IN
       IF MEDIA_ROLE_LIMITS[r.role] = 1
       THEN IF existingMedia # 0
            THEN /\ files' = UnlinkUrls(files, {media[existingMedia].media_url,
                                                media[existingMedia].poster_url})
                 /\ req' = [req EXCEPT ![i].pc = "delete_existing",
                                       ![i].existing = existingMedia]
            ELSE /\ req' = [req EXCEPT ![i].pc = "insert"]
                 /\ UNCHANGED files
       ELSE IF AtCapacity(count, r.role)
            THEN UploadCatch(i, files, CapacityMessage(r.role))
            ELSE /\ req' = [req EXCEPT ![i].pc = "insert", ![i].count = count]
                 /\ UNCHANGED files
    /\ UNCHANGED <<scen, now, media, nextId, job>>

\* await supabase.from("model_media").delete().eq("id", existingMedia.id)
UploadDeleteExisting(i) ==
    /\ req[i].kind = "upload" /\ req[i].pc = "delete_existing"
    /\ media' = DeleteRow(media, req[i].existing)
    /\ req' = [req EXCEPT ![i].pc = "insert", ![i].existing = 0]
    /\ UNCHANGED <<scen, now, files, nextId, job>>

\* uniqueId, finalFile, posterFile, the insert of the row, and for a video
\* the dispatch of the job and the response.
UploadInsert(i) ==
    /\ req[i].kind = "upload" /\ req[i].pc = "insert"
    /\ LET r == req[i]
           profile == ModelProfiles[r.user]
       IN
       \/ /\ UploadCatch(i, files, <<"Failed to create media record">>)
          /\ UNCHANGED <<media, nextId, job>>
       \/ \E rnd \in RandomDraws(scen.close, i) :
            LET uniqueId == now + rnd
                finalFile == FinalFile(profile, r.role, uniqueId, r.isVideo)
                posterFile == PosterFile(profile, r.role, uniqueId)
                mediaId == nextId
            IN
            /\ media' = InsertRow(media, mediaId,
                          Row(profile, IF r.isVideo THEN "video" ELSE "image",
                              r.role, r.isVideo))
            /\ nextId' = nextId + 1
            /\ IF r.isVideo
               THEN /\ job' = [job EXCEPT ![i] =
                              [IdleJob EXCEPT !.pc = "probe",
                                              !.rawPath = r.rawPath,
                                              !.finalVideoPath = finalFile,
                                              !.posterPath = posterFile,
                                              !.mediaId = mediaId]]
                    /\ req' = [req EXCEPT ![i] = VideoAccepted(r, mediaId)]
               ELSE /\ req' = [req EXCEPT ![i].pc = "image",
                                          ![i].mediaId = mediaId,
                                          ![i].finalFile = finalFile]
                    /\ UNCHANGED job
            /\ UNCHANGED files
    /\ UNCHANGED <<scen, now>>

\* processImage up to the first write: the type sniff, the HEIC/HEIF
\* conversion with the removal of the original, or sharp on the raw file.
UploadProcessImage(i) ==
    /\ req[i].kind = "upload" /\ req[i].pc = "image"
    /\ LET r == req[i]
           tempJpegPath == TempJpegPath(r.rawPath)
       IN
       IF ~ExistsSync(files, r.rawPath)
       THEN UploadCatch(i, files, <<"Failed to process HEIC/HEIF image">>)
       ELSE IF IsHeic(files[r.rawPath].mime)
       THEN \/ UploadCatch(i, files, <<"Failed to process HEIC/HEIF image">>)
            \/ /\ files' = Unlink(WriteFile(files, tempJpegPath,
                                            ConvertedJpeg(files[r.rawPath])),
                                  {r.rawPath})
               /\ req' = [req EXCEPT ![i].pc = "sharp"]
       ELSE \/ UploadCatch(i, files, <<"sharp failed">>)
            \/ /\ files[r.rawPath].mime # NoType
               /\ files[r.rawPath].mime[1] = "image"
               /\ files' = WriteFile(files, r.finalFile,
                                     NormalizedJpeg(files[r.rawPath]))
               /\ req' = [req EXCEPT ![i].pc = "update"]
    /\ UNCHANGED <<scen, now, media, nextId, job>>

\* processImage after a conversion: sharp on the converted file, then the
\* removal of the converted file.
UploadSharp(i) ==
    /\ req[i].kind = "upload" /\ req[i].pc = "sharp"
    /\ LET r == req[i]
           processedPath == TempJpegPath(r.rawPath)
       IN
       \/ UploadCatch(i, files, <<"sharp failed">>)
       \/ /\ ExistsSync(files, processedPath)
          /\ files' = Unlink(WriteFile(files, r.finalFile,
                                       NormalizedJpeg(files[processedPath])),
                             {processedPath})
          /\ req' = [req EXCEPT ![i].pc = "update"]
    /\ UNCHANGED <<scen, now, media, nextId, job>>

\* The update of the image's row and the response with the final URL.
UploadFinalize(i) ==
    /\ req[i].kind = "upload" /\ req[i].pc = "update"
    /\ media' = UpdateImageFinal(media, req[i].mediaId, req[i].finalFile)
    /\ req' = [req EXCEPT ![i] =
                 Responded(req[i], 200, NoError, req[i].mediaId, FALSE,
                           ToUrl(req[i].finalFile))]
    /\ UNCHANGED <<scen, now, files, nextId, job>>

(* ------------------------ processVideoAsync ---------------------------- *)

\* The catch block of the job takes over with err.message.
JobThrow(i, message) ==
    job' = [job EXCEPT ![i].pc = "catch", ![i].message = message]

\* ffprobe of the raw file and, for a height of at most 1080, the copy of
\* the raw file to the final path.
JobProbe(i) ==
    /\ job[i].pc = "probe"
    /\ LET j == job[i] IN
       \/ /\ JobThrow(i, <<"ffprobe failed">>)
          /\ UNCHANGED files
       \/ /\ ExistsSync(files, j.rawPath)
          /\ files[j.rawPath].mime # NoType
          /\ IF FitsWithoutCompression(files[j.rawPath].height)
             THEN /\ files' = WriteFile(files, j.finalVideoPath, files[j.rawPath])
                  /\ job' = [job EXCEPT ![i].pc = "poster"]
             ELSE /\ job' = [job EXCEPT ![i].pc = "transcode"]
                  /\ UNCHANGED files
    /\ UNCHANGED <<scen, now, media, nextId, req>>

\* ffmpeg(rawPath).size("?x1080").output(finalVideoPath)
JobTranscode(i) ==
    /\ job[i].pc = "transcode"
    /\ LET j == job[i] IN
       \/ /\ JobThrow(i, <<"ffmpeg failed">>)
          /\ UNCHANGED files
       \/ /\ ExistsSync(files, j.rawPath)
          /\ files' = WriteFile(files, j.finalVideoPath,
                                Transcoded(files[j.rawPath]))
          /\ job' = [job EXCEPT ![i].pc = "poster"]
    /\ UNCHANGED <<scen, now, media, nextId, req>>

\* The poster frame taken from the final file.
JobPoster(i) ==
    /\ job[i].pc = "poster"
    /\ LET j == job[i] IN
       \/ /\ JobThrow(i, <<"screenshot failed">>)
          /\ UNCHANGED files
       \/ /\ ExistsSync(files, j.finalVideoPath)
          /\ files' = WriteFile(files, j.posterPath,
                                PosterFrame(files[j.finalVideoPath]))
          /\ job' = [job EXCEPT ![i].pc = "update"]
    /\ UNCHANGED <<scen, now, media, nextId, req>>

\* The success update of the row, then fs.unlinkSync(rawPath), which throws
\* when the raw file is gone.
JobFinish(i) ==
    /\ job[i].pc = "update"
    /\ LET j == job[i] IN
       /\ media' = UpdateVideoSuccess(media, j.mediaId, j.finalVideoPath,
                                      j.posterPath)
       /\ IF ExistsSync(files, j.rawPath)
          THEN /\ files' = Unlink(files, {j.rawPath})
               /\ job' = [job EXCEPT ![i].pc = "done"]
          ELSE /\ JobThrow(i, <<"ENOENT">>)
               /\ UNCHANGED files
    /\ UNCHANGED <<scen, now, nextId, req>>

\* The catch block: the failure update of the row.
JobCatch(i) ==
    /\ job[i].pc = "catch"
    /\ media' = UpdateVideoFailure(media, job[i].mediaId, job[i].message)
    /\ job' = [job EXCEPT ![i].pc = "done"]
    /\ UNCHANGED <<scen, now, files, nextId, req>>

(* --------------------------- DELETE /media ----------------------------- *)

\* verifyUser, then the select of the row by id.
DeleteSelect(i) ==
    /\ MayArrive(i)
    /\ scen.deletes
    /\ \E auth \in Authorizations, id \in 1 .. nextId :
         LET r == [IdleReq EXCEPT !.kind = "delete",
                                  !.user = IF auth = <<>> THEN "" ELSE auth[2],
                                  !.mediaId = id]
         IN
         IF VerifyUser(auth) # 0
         THEN req' = [req EXCEPT ![i] =
                        Responded(r, VerifyUser(auth),
                                  VerifyUserError(VerifyUser(auth)), 0, FALSE, NoUrl)]
         ELSE IF id \notin DOMAIN media
         THEN req' = [req EXCEPT ![i] =
                        Responded(r, 404, <<"Media not found">>, 0, FALSE, NoUrl)]
         ELSE req' = [req EXCEPT ![i] =
                        [r EXCEPT !.pc = "owner",
                                  !.data = <<media[id].media_url,
                                             media[id].poster_url,
                                             media[id].model_id>>]]
    /\ UNCHANGED <<scen, now, media, files, nextId, job>>

\* The profile lookup, the ownership check and the removal of the files
\* behind the URLs read by the select.
DeleteCheckOwner(i) ==
    /\ req[i].kind = "delete" /\ req[i].pc = "owner"
    /\ LET r == req[i] IN
       IF NotOwner(r.user, r.data[3])
       THEN /\ req' = [req EXCEPT ![i] =
                         Responded(r, 403, <<"Forbidden">>, 0, FALSE, NoUrl)]
            /\ UNCHANGED files
       ELSE /\ files' = UnlinkUrls(files, {r.data[1], r.data[2]})
            /\ req' = [req EXCEPT ![i].pc = "delete_row", ![i].data = <<>>]
    /\ UNCHANGED <<scen, now, media, nextId, job>>

\* await supabase.from("model_media").delete().eq("id", id), then success.
DeleteRowById(i) ==
    /\ req[i].kind = "delete" /\ req[i].pc = "delete_row"
    /\ media' = DeleteRow(media, req[i].mediaId)
    /\ req' = [req EXCEPT ![i] =
                 Responded(req[i], 200, NoError, req[i].mediaId, FALSE, NoUrl)]
    /\ UNCHANGED <<scen, now, files, nextId, job>>

(* -------------------------- initial states ----------------------------- *)

\* A run's clients: who sends requests, carrying which roles where, with
\* which file parts, whether they also delete, the headers without a valid
\* token they also send, and the rows that exist at the start (seedCount
\* finished image uploads of p1 to seedRole).
Scenario(users, roles, parts, deletes, sameMs, close, badAuth, seedRole, seedCount) ==
    [users |-> users, roles |-> roles, parts |-> parts, deletes |-> deletes,
     sameMs |-> sameMs, close |-> close, badAuth |-> badAuth,
     seedRole |-> seedRole, seedCount |-> seedCount]

Scenarios ==
    { \* videos to a singleton role: the job, the replacement of a row
      Scenario({"u1"}, {Form("intro_video")}, {clip_mp4, film_mp4},
               FALSE, FALSE, FALSE, {}, "intro_video", 0),
      \* videos arriving in the same millisecond
      Scenario({"u1"}, {Form("portfolio_video")}, {clip_mp4},
               FALSE, TRUE, FALSE, {}, "portfolio_video", 0),
      \* images to a singleton role that holds a finished upload
      Scenario({"u1"}, {Form("profile")}, {photo_jpg, live_heic},
               FALSE, FALSE, FALSE, {}, "profile", 1),
      \* parts and roles the validation refuses, a user without profile
      Scenario({"u0", "u1"}, {Form("polaroid"), Form("bogus")},
               {big_jpg, anim_gif, notes_jpg, notes_mp4},
               FALSE, FALSE, FALSE, {}, "polaroid", 0),
      \* capped roles one below their cap
      Scenario({"u1"}, {Form("polaroid")}, {photo_jpg},
               FALSE, FALSE, FALSE, {}, "polaroid",
               MEDIA_ROLE_LIMITS["polaroid"] - 1),
      Scenario({"u1"}, {Form("portfolio")}, {photo_jpg},
               FALSE, FALSE, FALSE, {}, "portfolio",
               MEDIA_ROLE_LIMITS["portfolio"] - 1),
      Scenario({"u1"}, {Form("portfolio_video")}, {clip_mp4},
               FALSE, FALSE, FALSE, {}, "portfolio_video",
               MEDIA_ROLE_LIMITS["portfolio_video"] - 1),
      \* two owners who upload and delete
      Scenario({"u1", "u2"}, {Form("portfolio_video")}, {clip_mp4},
               TRUE, FALSE, FALSE, {}, "portfolio_video", 1),
      \* a singleton role that holds two rows, left by two uploads that raced
      Scenario({"u1"}, {Form("profile")}, {photo_jpg},
               FALSE, FALSE, FALSE, {}, "profile", 2),
      \* images whose uniqueIds draw random parts close to each other
      Scenario({"u1"}, {Form("portfolio")}, {photo_jpg},
               FALSE, FALSE, TRUE, {}, "portfolio", 0),
      \* refused uploads to a singleton role that holds a finished upload
      Scenario({"u0", "u1"}, {Form("profile")}, {anim_gif, big_jpg},
               FALSE, FALSE, FALSE, {}, "profile", 1),
      \* the role carried in the form, in the query and in the header
      Scenario({"u1"},
               {RoleIn("polaroid", "bogus", "bogus"),
                RoleIn("", "polaroid", "bogus"),
                RoleIn("", "", "polaroid"),
                RoleIn("bogus", "polaroid", "polaroid"),
                RoleIn("", "bogus", "polaroid")},
               {photo_jpg},
               FALSE, FALSE, FALSE, {}, "polaroid",
               MEDIA_ROLE_LIMITS["polaroid"] - 1),
      \* requests without a valid token among a user's uploads and deletions
      Scenario({"u1"}, {Form("polaroid")}, {photo_jpg},
               TRUE, FALSE, FALSE,
               {<<>>, <<"Basic", "u1">>, Bearer("forged")},
               "polaroid", MEDIA_ROLE_LIMITS["polaroid"]) }

SeedFile(role, id) == FinalFile("p1", role, 0 - id, FALSE)

SeedMedia(role, count) ==
    [id \in 1 .. count |->
        [Row("p1", "image", role, FALSE) EXCEPT
            !.media_url = ToUrl(SeedFile(role, id))]]

SeedFiles(role, count) ==
    [p \in {SeedFile(role, id) : id \in 1 .. count} |->
        NormalizedJpeg(photo_jpg.bytes)]

Init ==
    /\ scen \in Scenarios
    /\ now = 0
    /\ media = SeedMedia(scen.seedRole, scen.seedCount)
    /\ files = SeedFiles(scen.seedRole, scen.seedCount)
    /\ nextId = scen.seedCount + 1
    /\ req = [i \in Requests |-> IdleReq]
    /\ job = [i \in Requests |-> IdleJob]

\* The continuations of the requests and jobs under way.
Continue(i) ==
    \/ UploadValidate(i)
    \/ UploadRolePolicy(i)
    \/ UploadDeleteExisting(i)
    \/ UploadInsert(i)
    \/ UploadProcessImage(i)
    \/ UploadSharp(i)
    \/ UploadFinalize(i)
    \/ JobProbe(i)
    \/ JobTranscode(i)
    \/ JobPoster(i)
    \/ JobFinish(i)
    \/ JobCatch(i)
    \/ DeleteCheckOwner(i)
    \/ DeleteRowById(i)

\* Requests arrive at any time and are handled concurrently.
Next ==
    \E i \in Requests :
        \/ UploadReceive(i)
        \/ DeleteSelect(i)
        \/ Continue(i)

Spec == Init /\ [][Next]_vars

\* Every response has been sent: no handler is under way (jobs may be).
AllResponded == \A k \in Requests : req[k].pc \in {"idle", "done"}

\* The client sends each request after the response to the one before.
NextSeq ==
    \E i \in Requests :
        \/ AllResponded /\ UploadReceive(i)
        \/ AllResponded /\ DeleteSelect(i)
        \/ Continue(i)

SpecSeq == Init /\ [][NextSeq]_vars

(* ------------------------------ claims --------------------------------- *)

Profiles == {ModelProfiles[u] : u \in DOMAIN ModelProfiles}
CappedRoles == {r \in ALLOWED_MEDIA_ROLES : MEDIA_ROLE_LIMITS[r] > 1}
SingletonRoles == {r \in ALLOWED_MEDIA_ROLES : MEDIA_ROLE_LIMITS[r] = 1}
Count(tbl, m, r) == Cardinality(RowsOf(tbl, m, r))

\* C1: a job that has finished has left its row, if the row still exists,
\* at processing = false, and with processing_error set when any step of
\* the job failed: no job ends with its row at processing = true.
C1_JobEndsTerminal ==
    \A i \in Requests :
        (job[i].pc = "done" /\ job[i].mediaId \in DOMAIN media) =>
            /\ media[job[i].mediaId].processing = FALSE
            /\ job[i].message # NoError =>
                   media[job[i].mediaId].processing_error # NoError

\* A job that failed has finished, and its row holds the error.
C1_Witness ==
    \E i \in Requests :
        /\ job[i].pc = "done" /\ job[i].message # NoError
        /\ job[i].mediaId \in DOMAIN media
        /\ media[job[i].mediaId].processing = FALSE
        /\ media[job[i].mediaId].processing_error = job[i].message

\* C2: once a job has finished, in success or in failure, the raw upload
\* file of its upload no longer exists.
C2_RawGoneAfterJob ==
    \A i \in Requests :
        job[i].pc = "done" => ~ExistsSync(files, job[i].rawPath)

\* C3: every row with processing = false has a media_url or a
\* processing_error, also between the steps of an image upload and after
\* an image upload whose normalization failed.
C3_TerminalHasUrlOrError ==
    \A id \in DOMAIN media :
        media[id].processing = FALSE =>
            media[id].media_url # NoUrl \/ media[id].processing_error # NoError

\* C4: every row with processing = true has an empty media_url and an
\* empty poster_url.
C4_ProcessingHasNoUrl ==
    \A id \in DOMAIN media :
        media[id].processing = TRUE =>
            media[id].media_url = NoUrl /\ media[id].poster_url = NoUrl

\* A job has written its final file and poster and its row is still
\* processing.
C4_Witness ==
    \E i \in Requests :
        /\ job[i].pc = "update"
        /\ ExistsSync(files, job[i].finalVideoPath)
        /\ job[i].mediaId \in DOMAIN media
        /\ media[job[i].mediaId].processing = TRUE

\* C5: a row gets the success update or the failure update, never both:
\* no row has a media_url and a processing_error.
C5_NeverUrlAndError ==
    \A id \in DOMAIN media :
        ~(media[id].media_url # NoUrl /\ media[id].processing_error # NoError)

\* The final artifacts (media and poster) written for the accepted upload
\* of request i: those of its job, or the file behind the URL it answered.
ArtifactsOf(i) ==
    IF job[i].pc # "none"
    THEN {job[i].finalVideoPath, job[i].posterPath}
    ELSE IF req[i].pc = "done" /\ req[i].resp.url # NoUrl
    THEN {ToPath(req[i].resp.url)}
    ELSE {}

JobsFinished == \A k \in Requests : job[k].pc \in {"none", "done"}

\* C6: after sequential uploads by one owner to a singleton role, each
\* sent after the response to the one before, exactly one row exists for
\* that (owner, role) and, once the jobs have finished, no media or poster
\* file of an earlier upload remains.
C6_SequentialSingletonReplaces ==
    \A i, k \in Requests :
        (/\ i < k /\ AllResponded /\ JobsFinished
         /\ ArtifactsOf(i) # {} /\ ArtifactsOf(k) # {}
         /\ \E a \in ArtifactsOf(i), b \in ArtifactsOf(k) :
                a[2] = b[2] /\ a[3] = b[3] /\ a[3] \in SingletonRoles)
        => \A a \in ArtifactsOf(i) :
               /\ Count(media, a[2], a[3]) = 1
               /\ a \in ArtifactsOf(k) \/ ~ExistsSync(files, a)

\* C7: an upload to a capped (owner, role) that holds cap rows is
\* answered 400 with the capacity error; it creates no row, starts no job,
\* leaves every row unchanged and changes no file but its own raw file,
\* which it removes.
C7_CapacityRejects ==
    [][\A i \in Requests :
         (/\ req[i].kind = "upload" /\ req[i].pc = "policy"
          /\ req[i].role \in CappedRoles
          /\ Count(media, ModelProfiles[req[i].user], req[i].role)
                 >= MEDIA_ROLE_LIMITS[req[i].role]
          /\ req'[i] # req[i])
         => /\ req'[i].pc = "done"
            /\ req'[i].resp.status = 400
            /\ req'[i].resp.error = CapacityMessage(req[i].role)
            /\ media' = media /\ nextId' = nextId /\ job' = job
            /\ req[i].rawPath[4] = "raw"
            /\ files' = Unlink(files, {req[i].rawPath})]_vars

\* An upload was refused for capacity and the role still holds cap rows.
C7_Witness ==
    \E i \in Requests, r \in CappedRoles :
        /\ req[i].pc = "done" /\ req[i].resp.status = 400
        /\ req[i].resp.error = CapacityMessage(r)
        /\ Count(media, "p1", r) = MEDIA_ROLE_LIMITS[r]

\* C8: under any interleaving of uploads the number of rows of a capped
\* (owner, role) never exceeds the cap of the role.
C8_CapNeverExceeded ==
    \A p \in Profiles, r \in CappedRoles :
        Count(media, p, r) <= MEDIA_ROLE_LIMITS[r]

\* C8 as amended: the number of rows of a capped (owner, role) passes the
\* cap only by the insert of an upload whose count is stale, another row
\* of the pair having been inserted since it counted.
C8_CapExceededOnlyByRace ==
    [][\A p \in Profiles, r \in CappedRoles :
         (/\ Count(media, p, r) <= MEDIA_ROLE_LIMITS[r]
          /\ Count(media', p, r) > MEDIA_ROLE_LIMITS[r])
         => \E i \in Requests :
                /\ req[i].kind = "upload" /\ req[i].pc = "insert"
                /\ req'[i].pc # "insert"
                /\ ModelProfiles[req[i].user] = p /\ req[i].role = r
                /\ req[i].count < Count(media, p, r)]_vars

\* An upload has counted cap - 1 rows and inserted the row that fills the
\* role to its cap, no other insert in between.
C8_Witness ==
    \E i \in Requests, r \in CappedRoles :
        /\ req[i].pc = "done" /\ req[i].resp.status = 200
        /\ req[i].resp.id \in DOMAIN media
        /\ media[req[i].resp.id].media_role = r
        /\ Count(media, "p1", r) = MEDIA_ROLE_LIMITS[r]
        /\ \A k \in Requests \ {i} : req[k].resp.status # 200

\* C9: no row is created for an upload whose bytes are not of an
\* allow-listed image or video type, whatever the client declares.
C9_NoRowForForeignBytes ==
    [][\A i \in Requests :
         (/\ req[i].kind = "upload" /\ req[i].pc = "insert"
          /\ nextId' # nextId /\ req'[i] # req[i])
         => /\ ExistsSync(files, req[i].rawPath)
            /\ files[req[i].rawPath].mime
                   \in AllowedImageMimes \cup AllowedVideoMimes]_vars

\* C10: an upload that stored a raw file and is answered with an error has
\* left no raw file when the response is sent.
C10_ErrorLeavesNoRaw ==
    [][\A i \in Requests :
         (/\ req[i].kind = "upload" /\ req[i].pc \notin {"idle", "done"}
          /\ req'[i].pc = "done" /\ req'[i].resp.status >= 400)
         => ~ExistsSync(files', req[i].rawPath)]_vars

\* C11: an image upload whose normalization (conversion or sharp) fails
\* leaves no row of that upload in the table.
C11_FailedImageLeavesNoRow ==
    [][\A i \in Requests :
         (/\ req[i].kind = "upload" /\ req[i].pc \in {"image", "sharp"}
          /\ req'[i].pc = "done" /\ req'[i].resp.status >= 400)
         => req[i].mediaId \notin DOMAIN media']_vars

\* C12: when an image upload succeeds, its raw file and its converted file
\* are gone and its final JPEG exists.
C12_SuccessfulImageLeavesOnlyFinal ==
    [][\A i \in Requests :
         (/\ req[i].kind = "upload" /\ req[i].pc = "update"
          /\ req'[i].pc = "done" /\ req'[i].resp.status = 200)
         => /\ ~ExistsSync(files', req[i].rawPath)
            /\ ~ExistsSync(files', TempJpegPath(req[i].rawPath))
            /\ ExistsSync(files', req[i].finalFile)]_vars

\* C13: every row with a media_url or a poster_url names files that exist.
C13_UrlsNameExistingFiles ==
    \A id \in DOMAIN media :
        \A url \in {media[id].media_url, media[id].poster_url} \ {NoUrl} :
            ExistsSync(files, ToPath(url))

\* The ids whose DELETE has been answered with success.
DeletedIds ==
    {req[k].resp.id : k \in {k \in Requests : /\ req[k].kind = "delete"
                                               /\ req[k].pc = "done"
                                               /\ req[k].resp.status = 200}}

\* C14: when the owner's DELETE of row X is answered with success, the
\* files behind the media_url and poster_url of X are gone and X is not in
\* the table; from then on X stays absent and a DELETE of X finds no row.
C14_DeleteRemovesRowAndFiles ==
    [][/\ \A i \in Requests :
            (/\ req[i].kind = "delete" /\ req[i].pc = "delete_row"
             /\ req'[i].pc = "done" /\ req'[i].resp.status = 200)
            => /\ req[i].mediaId \notin DOMAIN media'
               /\ req[i].mediaId \in DOMAIN media =>
                      \A url \in {media[req[i].mediaId].media_url,
                                  media[req[i].mediaId].poster_url} \ {NoUrl} :
                          ~ExistsSync(files', ToPath(url))
       /\ \A id \in DeletedIds : id \notin DOMAIN media'
       /\ \A k \in Requests :
            (req[k].pc = "idle" /\ req'[k].kind = "delete"
             /\ req'[k].pc # "done")
            => req'[k].mediaId \notin DeletedIds]_vars

\* C15: a DELETE of a row whose owner is not the profile of the
\* authenticated user is answered 403 and changes neither the table nor
\* the files; nothing is removed before the ownership check.
C15_ForeignDeleteRefused ==
    [][\A i \in Requests :
         /\ (req[i].pc = "idle" /\ req'[i].kind = "delete")
            => media' = media /\ files' = files
         /\ (/\ req[i].kind = "delete" /\ req[i].pc = "owner"
             /\ req[i].mediaId \in DOMAIN media
             /\ \/ req[i].user \notin DOMAIN ModelProfiles
                \/ media[req[i].mediaId].model_id # ModelProfiles[req[i].user]
             /\ req'[i] # req[i])
            => /\ req'[i].pc = "done"
               /\ req'[i].resp.status = 403
               /\ req'[i].resp.error = <<"Forbidden">>
               /\ media' = media /\ files' = files]_vars

\* A DELETE of a row of p1 was refused; the row and its file are there.
C15_Witness ==
    \E i \in Requests, id \in DOMAIN media :
        /\ req[i].kind = "delete" /\ req[i].pc = "done"
        /\ req[i].resp.status = 403
        /\ media[id].model_id = "p1" /\ media[id].media_url # NoUrl
        /\ ExistsSync(files, ToPath(media[id].media_url))

\* C16: the answer {id, processing: true} of an accepted video upload is
\* sent before any step of its job runs, and no step of the job, whatever
\* its outcome, changes it.
C16_VideoAnsweredBeforeJob ==
    [][\A i \in Requests :
         /\ job'[i].pc # "none" =>
                /\ req'[i].pc = "done"
                /\ req'[i].resp = [status |-> 200, error |-> NoError,
                                   id |-> job'[i].mediaId,
                                   processing |-> TRUE, url |-> NoUrl]
         /\ (job[i].pc = "none" /\ job'[i].pc # "none") =>
                /\ job'[i].pc = "probe"
                /\ files' = files
                /\ job'[i].mediaId \in DOMAIN media'
                /\ media'[job'[i].mediaId].processing = TRUE
         /\ (job[i].pc # "none" /\ job'[i] # job[i]) => req'[i] = req[i]]_vars

\* Two accepted videos hold the same kind of answer, one job having ended
\* in success and the other in failure.
C16_Witness ==
    \E i, k \in Requests :
        /\ job[i].pc = "done" /\ job[i].message = NoError
        /\ job[k].pc = "done" /\ job[k].message # NoError
        /\ req[i].resp.processing /\ req[k].resp.processing
        /\ req[i].resp.id = job[i].mediaId /\ req[k].resp.id = job[k].mediaId

\* C17: when an image upload is answered with processing: false and a url,
\* the row with the returned id exists with processing = false and that
\* media_url, and the final file exists.
C17_ImageAnswerMatchesRow ==
    [][\A i \in Requests :
         (/\ req[i].kind = "upload" /\ req[i].pc # "done"
          /\ req'[i].pc = "done" /\ req'[i].resp.status = 200
          /\ ~req'[i].resp.processing)
         => /\ req'[i].resp.url # NoUrl
            /\ req'[i].resp.id \in DOMAIN media'
            /\ media'[req'[i].resp.id].processing = FALSE
            /\ media'[req'[i].resp.id].media_url = req'[i].resp.url
            /\ ExistsSync(files', ToPath(req'[i].resp.url))]_vars

C19_CopyIffAtMost1080 ==
    [][\A i \in Requests :
         /\ (job[i].pc = "probe" /\ job'[i].pc \notin {"probe", "catch"}) =>
                IF files[job[i].rawPath].height <= 1080
                THEN /\ job'[i].pc = "poster"
                     /\ ExistsSync(files', job[i].finalVideoPath)
                     /\ files'[job[i].finalVideoPath] = files[job[i].rawPath]
                ELSE /\ job'[i].pc = "transcode"
                     /\ files' = files
         /\ (job[i].pc = "transcode" /\ job'[i].pc = "poster") =>
                /\ files[job[i].rawPath].height > 1080
                /\ ExistsSync(files', job[i].finalVideoPath)
                /\ files'[job[i].finalVideoPath].height = 1080]_vars

\* One job has copied a raw file of height 1080, another has transcoded a
\* higher one.
C19_Witness ==
    \E i, k \in Requests :
        /\ job[i].pc = "poster" /\ ExistsSync(files, job[i].rawPath)
        /\ files[job[i].rawPath].height = 1080
        /\ files[job[i].finalVideoPath] = files[job[i].rawPath]
        /\ job[k].pc = "poster" /\ ExistsSync(files, job[k].rawPath)
        /\ files[job[k].rawPath].height > 1080
        /\ files[job[k].finalVideoPath].height = 1080

\* C20: when a terminal update (the success or the failure update of a
\* job, the final update of an image) has been applied to a row, applying
\* the same update again leaves the table as it is, and the first
\* application has changed no other row.
C20_TerminalUpdateIdempotent ==
    [][\A i \in Requests :
         LET j == job[i]
             r == req[i]
             others(id) == \A x \in DOMAIN media \ {id} :
                               x \in DOMAIN media' /\ media'[x] = media[x]
         IN
         /\ (j.pc = "update" /\ job'[i].pc # "update") =>
                /\ UpdateVideoSuccess(media', j.mediaId, j.finalVideoPath,
                                      j.posterPath) = media'
                /\ others(j.mediaId)
         /\ (j.pc = "catch" /\ job'[i].pc = "done") =>
                /\ UpdateVideoFailure(media', j.mediaId, j.message) = media'
                /\ others(j.mediaId)
         /\ (r.kind = "upload" /\ r.pc = "update" /\ req'[i].pc = "done") =>
                /\ UpdateImageFinal(media', r.mediaId, r.finalFile) = media'
                /\ others(r.mediaId)]_vars

\* A job has applied its failure update to its row while another row is in
\* the table; the same update applied again changes nothing.
C20_Witness ==
    \E i \in Requests :
        /\ job[i].pc = "done" /\ job[i].message # NoError
        /\ job[i].mediaId \in DOMAIN media
        /\ media[job[i].mediaId].processing_error = job[i].message
        /\ UpdateVideoFailure(media, job[i].mediaId, job[i].message) = media
        /\ Cardinality(DOMAIN media) > 1

\* C21: an upload handled as an image whose sniffed type is allow-listed is
\* refused with the size error exactly when its file is larger than
\* 6 * 1024 * 1024 bytes; a file of exactly that size passes validateImage.
C21_SizeErrorIffAbove6MiB ==
    [][\A i \in Requests :
         (/\ req[i].kind = "upload" /\ req[i].pc = "validate"
          /\ req'[i] # req[i]
          /\ MediaRole(req[i].fields[1], req[i].fields[2], req[i].fields[3])
                 \in ALLOWED_MEDIA_ROLES
          /\ ~req[i].isVideo
          /\ ExistsSync(files, req[i].rawPath)
          /\ files[req[i].rawPath].mime \in AllowedImageMimes)
         => ((/\ req'[i].pc = "done" /\ req'[i].resp.status = 400
              /\ req'[i].resp.error = <<"Image exceeds size limit">>)
             <=> files[req[i].rawPath].size > 6 * 1024 * 1024)]_vars

\* An image of exactly 6 MiB has passed the validation.
C21_Witness ==
    \E i \in Requests :
        /\ req[i].kind = "upload" /\ req[i].pc = "policy" /\ ~req[i].isVideo
        /\ ExistsSync(files, req[i].rawPath)
        /\ files[req[i].rawPath].size = 6 * 1024 * 1024

\* The role a request carries: the form field when it has one, else the
\* query parameter, else the x-media-role header.
CarriedRole(fields) ==
    IF fields[1] # "" THEN fields[1]
    ELSE IF fields[2] # "" THEN fields[2]
    ELSE fields[3]

\* C22: the role applied to an upload is the form field if present, else
\* the query parameter, else the header; an upload whose role is not one of
\* the five allowed roles is answered 400 and creates no row, and the row
\* of an accepted upload carries the role resolved so.
C22_RolePrecedence ==
    [][\A i \in Requests :
         /\ (req[i].kind = "upload" /\ req[i].pc = "validate"
             /\ req'[i] # req[i]) =>
                IF CarriedRole(req[i].fields) \notin
                       {"profile", "portfolio", "polaroid", "intro_video",
                        "portfolio_video"}
                THEN /\ req'[i].pc = "done" /\ req'[i].resp.status = 400
                     /\ req'[i].resp.error = <<"Invalid media_role">>
                     /\ media' = media /\ job' = job
                ELSE req'[i].pc # "done" =>
                         req'[i].role = CarriedRole(req[i].fields)
         /\ (req[i].kind = "upload" /\ req[i].pc = "insert"
             /\ nextId' # nextId) =>
                /\ DOMAIN media' = DOMAIN media \cup {nextId}
                /\ media'[nextId].media_role = req[i].role]_vars

\* Among requests that carry the role in several places, one has been
\* refused for its role and one has had a row with role polaroid inserted.
C22_Witness ==
    /\ Cardinality(scen.roles) > 2
    /\ \E i \in Requests :
           /\ req[i].pc = "done" /\ req[i].resp.error = <<"Invalid media_role">>
    /\ \E id \in DOMAIN media :
           id > scen.seedCount /\ media[id].media_role = "polaroid"

\* C23: a POST /upload or DELETE /media without a valid bearer token is
\* answered 401 (no Bearer header) or 403 (token rejected) and changes no
\* row and no file; a request that gets past verifyUser acts for a user the
\* identity verifier knows.
C23_NoTokenNoEffect ==
    [][\A i \in Requests :
         (req[i].pc = "idle" /\ req'[i].pc # "idle") =>
            IF req'[i].pc = "done" /\ req'[i].resp.status \in {401, 403}
            THEN /\ req'[i].resp.error \in {<<"Missing token">>, <<"Invalid token">>}
                 /\ media' = media /\ files' = files
                 /\ nextId' = nextId /\ job' = job
            ELSE \/ req'[i].user \in {"u0", "u1", "u2"}
                 \/ req'[i].pc = "done" /\ req'[i].resp.status = 404]_vars

\* Requests without a valid token have been refused, one with 401 and one
\* with 403, with rows and files in place.
C23_Witness ==
    /\ \E i \in Requests : req[i].pc = "done" /\ req[i].resp.status = 401
    /\ \E k \in Requests : req[k].pc = "done" /\ req[k].resp.status = 403
    /\ DOMAIN media # {} /\ DOMAIN files # {}

\* C24: once a row has processing = false no step changes it: processing
\* does not go back to true and media_url, poster_url and processing_error
\* stay as they are for as long as the row exists.
C24_TerminalRowFrozen ==
    [][\A id \in DOMAIN media \cap DOMAIN media' :
         media[id].processing = FALSE => media'[id] = media[id]]_vars

\* C25: the replacement step of an upload to a singleton role removes the
\* files behind every row of the (owner, role), and the insert finds every
\* such row removed, however many there were: after the insert the new row
\* is the only row of the pair.
C25_ReplacementRemovesEveryRow ==
    [][\A i \in Requests :
         /\ (/\ req[i].kind = "upload" /\ req[i].pc = "policy"
             /\ req[i].role \in SingletonRoles /\ req'[i] # req[i]) =>
                \A id \in RowsOf(media, ModelProfiles[req[i].user], req[i].role) :
                    \A url \in {media[id].media_url, media[id].poster_url}
                                   \ {NoUrl} :
                        ~ExistsSync(files', ToPath(url))
         /\ (/\ req[i].kind = "upload" /\ req[i].pc = "insert"
             /\ req[i].role \in SingletonRoles /\ nextId' # nextId) =>
                RowsOf(media', ModelProfiles[req[i].user], req[i].role)
                    = {nextId}]_vars

\* C26: when the row of a video has been deleted while its job was running,
\* the job ends with no final video, poster or raw file of that upload in
\* storage, and its late update creates and changes no row.
C26_JobOfDeletedRowLeavesNothing ==
    [][\A i \in Requests :
         (/\ job[i].pc \notin {"none", "done"} /\ job'[i].pc = "done"
          /\ job[i].mediaId \notin DOMAIN media)
         => /\ media' = media
            /\ ~ExistsSync(files', job[i].finalVideoPath)
            /\ ~ExistsSync(files', job[i].posterPath)
            /\ ~ExistsSync(files', job[i].rawPath)]_vars

\* The raw file request i still works with: that of its handler while it
\* runs, that of its job until the job has ended (<<>> when none).
RawInUse(i) ==
    IF req[i].kind = "upload" /\ req[i].pc \notin {"idle", "done"}
    THEN req[i].rawPath
    ELSE IF job[i].pc \notin {"none", "done"} THEN job[i].rawPath
    ELSE <<>>

\* C27: two uploads whose raw files are both in use never share a raw
\* path, also when they arrive in the same millisecond with the same
\* extension, user and role.
C27_RawPathsDistinct ==
    \A i, k \in Requests :
        (i # k /\ RawInUse(i) # <<>> /\ RawInUse(k) # <<>>)
        => RawInUse(i) # RawInUse(k)

\* The final and poster paths chosen for the upload of request i.
ChosenPaths(i) ==
    IF job[i].pc # "none" THEN {job[i].finalVideoPath, job[i].posterPath}
    ELSE IF req[i].kind = "upload" /\ req[i].finalFile # <<>>
    THEN {req[i].finalFile}
    ELSE IF req[i].kind = "upload" /\ req[i].resp.url # NoUrl
    THEN {ToPath(req[i].resp.url)}
    ELSE {}

\* C28: the final and poster paths chosen for two different uploads are
\* distinct, and the paths an upload chooses are named by no row that is
\* already in the table.
C28_FinalPathsDistinct ==
    [][/\ \A i, k \in Requests :
            i # k => ChosenPaths(i)' \cap ChosenPaths(k)' = {}
       /\ \A i \in Requests :
            (ChosenPaths(i) = {} /\ ChosenPaths(i)' # {}) =>
                \A id \in DOMAIN media :
                    /\ ToPath(media[id].media_url) \notin ChosenPaths(i)'
                    /\ ToPath(media[id].poster_url) \notin ChosenPaths(i)']_vars

\* The rows of p1 that were there at the start, and their files.
PriorIntact ==
    \A id \in 1 .. scen.seedCount :
        /\ id \in DOMAIN media
        /\ media[id].media_url # NoUrl
        /\ ExistsSync(files, ToPath(media[id].media_url))

\* C29: while no upload has been accepted, the record an owner had for a
\* singleton role and its files are intact, whatever uploads to the role
\* have ended with an error.
C29_FailedUploadKeepsPrior ==
    (/\ scen.seedRole \in SingletonRoles /\ ~scen.deletes
     /\ AllResponded
     /\ \A k \in Requests : req[k].resp.status # 200)
    => PriorIntact

\* The request of an upload the handler refuses before its role policy: a
\* role outside the allow-list, a part not declared video whose bytes are
\* not an allow-listed image of at most 6 MiB, a user without profile.
RefusedBeforePolicy(r) ==
    \/ MediaRole(r.fields[1], r.fields[2], r.fields[3]) \notin ALLOWED_MEDIA_ROLES
    \/ /\ ~r.isVideo
       /\ \/ files[r.rawPath].mime \notin AllowedImageMimes
          \/ files[r.rawPath].size > IMAGE_MAX_BYTES
    \/ r.user \notin DOMAIN ModelProfiles

\* C29 as amended: an upload refused before the replacement step changes
\* no row and no file but its raw file; the row of a singleton role is
\* removed only by the replacement step of an upload that has passed the
\* validation (before its insert and normalization) or by a DELETE.
C29_PriorRemovedOnlyByReplacementStep ==
    [][/\ \A i \in Requests :
            (/\ req[i].kind = "upload" /\ req[i].pc = "validate"
             /\ req'[i] # req[i] /\ ExistsSync(files, req[i].rawPath)
             /\ RefusedBeforePolicy(req[i]))
            => /\ req'[i].pc = "done" /\ req'[i].resp.status = 400
               /\ media' = media
               /\ \A q \in DOMAIN files \ {req[i].rawPath} :
                      q \in DOMAIN files' /\ files'[q] = files[q]
       /\ \A id \in DOMAIN media \ DOMAIN media' :
            \E i \in Requests :
                \/ /\ req[i].kind = "upload" /\ req[i].pc = "delete_existing"
                   /\ req[i].existing = id /\ req'[i].pc = "insert"
                \/ /\ req[i].kind = "delete" /\ req[i].pc = "delete_row"
                   /\ req[i].mediaId = id]_vars

\* An upload to a singleton role has been refused for its file and the
\* record the owner had, with its file, is there.
C29_Witness ==
    /\ scen.seedRole \in SingletonRoles /\ scen.seedCount = 1
    /\ PriorIntact
    /\ \E i \in Requests :
           /\ req[i].pc = "done"
           /\ req[i].resp.error \in {<<"Unsupported image type">>,
                                     <<"Image exceeds size limit">>}

\* The artifact files (final and poster) under the directory of a profile
\* other than own.
ForeignArtifacts(fs, own) ==
    {q \in DOMAIN fs : q[2] # own /\ q[4] \in {"final", "poster"}}

====
